---------------------------- MODULE Spec2Model ----------------------------
(***************************************************************************)
(* ioBroker.mcp: the RPC dispatcher of McpServer (POST /api/rpc with       *)
(* get_states and list_adapters) and the listDevices aggregation, both of  *)
(* src/src/lib/mcp-server.ts, over an external object/state store; the     *)
(* HTTP server of the adapter, its authentication middleware and its       *)
(* shutdown, of src/src/main.ts.                                           *)
(*                                                                         *)
(* Conventions of the model.                                               *)
(*  - A dotted identifier "a.b.c" is the sequence of its dot-free segments *)
(*    <<"a","b","c">>; the empty string is <<"">> (what "".split(".")      *)
(*    gives), so prefix tests with a trailing dot are segment tests.       *)
(*  - An optional JavaScript value (undefined or a value v) is <<>> or     *)
(*    <<v>>.                                                               *)
(*  - Primitive values are tokens: "true", "7", "on", and "null".          *)
(***************************************************************************)
EXTENDS Integers, Sequences, FiniteSets, TLC

VARIABLES
    store,        \* external state store: state id -> <<>> or <<[val, ack, ts, lc]>>
    instances,    \* external object store: rows of getForeignObjects("system.adapter.*")
    now,          \* the clock read by Date.now()
    extWrites,    \* number of third-party writes made so far
    nreq,         \* number of requests received so far
    pc,           \* position of the request being served
    req,          \* the parsed body of the request being served
    idx,          \* loop position of handleGetStates / handleListAdapters
    states,       \* handleGetStates: the records pushed so far
    threw,        \* per awaited store call of the handler, whether it threw
    objects,      \* handleListAdapters: rows returned by getForeignObjectsAsync
    pending,      \* handleListAdapters: liveness reads of Promise.all not settled yet
    aux,          \* handleListAdapters: settled liveness reads of the instance
    auxThrew,     \* handleListAdapters: the liveness reads that threw, <<row, name>>
    adapters,     \* handleListAdapters: the records pushed so far
    responses,    \* responses sent for the request being served
    storeCalls,   \* store calls (reads and writes) issued by the request being served
    clean,        \* no third-party write since the request being served arrived
    prev,         \* the previous request: body, responses, and no write since it arrived
    dbObjects,    \* external object store: the objects, in the order its views return them
    controlsOf,   \* the classifier: grouping id -> controls detector.detect returns
    lpc,          \* position of the listDevices call
    ldParams,     \* listDevices: its params {room, limit, offset}
    ldObjects,    \* listDevices: objects, the merged snapshot, in key order
    roomMembers,  \* listDevices: members of the room enum the filter matched
    ki,           \* listDevices: position of the loop over keys
    devicesMap,   \* listDevices: the devices set so far, in insertion order
    result,       \* listDevices: the value the call resolved with
    hostObj,      \* external object store: the object system.host.<host>, if any
    osInfo,       \* what node:os and process report
    gathered,     \* system_info: what the handler has gathered so far
    config,       \* main.ts: this.config {auth, username, password, secure}
    started,      \* main.ts: onReady has run
    server,       \* main.ts: this.server, null or a server and what became of its listen
    sockets,      \* main.ts: the connections of the server, each closed or at a stage
    closing,      \* main.ts: server.close has taken the callback of onUnload
    unloaded,     \* main.ts: onUnload has run
    callbacks,    \* main.ts: times the callback of onUnload was invoked
    httpPc,       \* main.ts: position of the request in the middleware chain
    authorization \* main.ts: req.headers.authorization of that request

rpcVars == <<pc, req, idx, states, threw, objects, pending, aux, auxThrew, adapters,
             responses, storeCalls>>
envVars == <<store, instances, now, extWrites>>
histVars == <<nreq, clean, prev>>
callVars == <<nreq, prev>>
sysVars == <<hostObj, osInfo, gathered>>
mainVars == <<config, started, server, sockets, closing, unloaded, callbacks, httpPc,
              authorization>>
listVars == <<dbObjects, controlsOf, lpc, ldParams, ldObjects, roomMembers, ki, devicesMap,
              result>>

-----------------------------------------------------------------------------
(* Bounds of the model *)

MaxClock == 1
MaxWrites == 1
MaxRequests == 2
MaxIds == 2
MaxLimit == 2
MaxOffset == 2
MaxDevices == 101
MaxSockets == 2
MaxCred == 5

-----------------------------------------------------------------------------
(* Values *)

Undefined == <<>>
Some(v) == <<v>>
JsNull == "null"

\* typeof v for the value tokens of the model
TypeOf(v) ==
    CASE v \in {"true", "false"} -> "boolean"
      [] v \in {"0", "7"} -> "number"
      [] v = JsNull -> "object"
      [] OTHER -> "string"

S1 == <<"zigbee", "0", "dev1", "temperature">>
S2 == <<"zigbee", "0", "dev2", "humidity">>
StateIds == {S1, S2}

InstA == <<"system", "adapter", "zigbee", "0">>
InstB == <<"system", "adapter", "hue", "0">>
AuxNames == {"alive", "connected", "uptime"}
AuxIds == {Append(InstA, k) : k \in AuxNames}

Vals == {"true", "7"}


-----------------------------------------------------------------------------
(* The external store *)

StoreErrorMsg == "DB closed"

NoStates == [id \in StateIds \cup AuxIds |-> Undefined]

\* adapter.getForeignStateAsync(id), when it does not throw
GetState(id) == IF id \in DOMAIN store THEN store[id] ELSE Undefined

Common(name, version, enabled, loglevel) ==
    [name |-> name, version |-> version, enabled |-> enabled, loglevel |-> loglevel]

RowA == [id |-> InstA,
         obj |-> Some([type |-> "instance",
                       common |-> Common("zigbee", "1.21.0", TRUE, "debug")])]
RowB == [id |-> InstB,
         obj |-> Some([type |-> "instance", common |-> Common("hue", "", FALSE, "")])]
RowX == [id |-> <<"system", "adapter", "admin">>,
         obj |-> Some([type |-> "adapter", common |-> Common("admin", "7.0.0", TRUE, "")])]

InstanceRows == {<<>>, <<RowX, RowA, RowB>>}

-----------------------------------------------------------------------------
(* Requests to POST /api/rpc *)

IdsUndefined == [t |-> "undefined", a |-> <<>>]
IdsString == [t |-> "string", a |-> <<>>]
IdsArray(a) == [t |-> "array", a |-> a]

IdSeqs == UNION {[1..n -> StateIds] : n \in 0..MaxIds}

ParamsUndefined == [t |-> "undefined", ids |-> IdsUndefined, id |-> Undefined, value |-> Undefined]
ParamsNull == [ParamsUndefined EXCEPT !.t = "null"]
ParamsEmpty == [ParamsUndefined EXCEPT !.t = "object"]
ParamsIds(ids) == [ParamsEmpty EXCEPT !.ids = ids]
ParamsSet(id, value) == [ParamsEmpty EXCEPT !.id = Some(id), !.value = Some(value)]

GetStatesParams ==
    {ParamsUndefined, ParamsNull, ParamsEmpty, ParamsIds(IdsString)}
        \cup {ParamsIds(IdsArray(a)) : a \in IdSeqs}

\* What is left of a body that JSON.parse rejects: {}
BodyMalformed == [kind |-> "object", method |-> Undefined, params |-> ParamsUndefined]
BodyUndefined == [kind |-> "undefined", method |-> Undefined, params |-> ParamsUndefined]
BodyNull == [BodyUndefined EXCEPT !.kind = "null"]
Body(method, params) == [kind |-> "object", method |-> method, params |-> params]

Bodies ==
    {BodyUndefined, BodyNull, BodyMalformed, Body(Undefined, ParamsEmpty),
     Body(Some(""), ParamsEmpty)}
        \cup {Body(Some("get_states"), p) : p \in GetStatesParams}
        \cup {Body(Some("list_adapters"), ParamsUndefined)}
        \cup {Body(Some("set_state"), ParamsSet(S1, v)) : v \in Vals}
        \cup {Body(Some("list_devices"), ParamsEmpty)}
        \cup {Body(Some("bogus_method"), ParamsEmpty)}

-----------------------------------------------------------------------------
(* McpServer: POST /api/rpc *)

Response(status, body) == [status |-> status, body |-> body]

\* const { method, params } = req.body throws a TypeError unless body is an object
DestructureErrorMsg(body) ==
    "Cannot destructure property 'method' of 'req.body' as it is " \o body.kind \o "."

\* !method
MethodMissing(method) == method = Undefined \/ method[1] = ""

\* Route without its final else: what is not get_states is taken for list_adapters
RouteNoElse(body) ==
    IF body.kind # "object" THEN "throw"
    ELSE IF MethodMissing(body.method) THEN "method_required"
    ELSE IF body.method[1] = "get_states" THEN "get_states"
    ELSE "list_adapters"

\* The branch of the handler taken for a body
Route(body) ==
    IF body.kind # "object" THEN "throw"
    ELSE IF MethodMissing(body.method) THEN "method_required"
    ELSE IF body.method[1] = "get_states" THEN "get_states"
    ELSE IF body.method[1] = "list_adapters" THEN "list_adapters"
    ELSE "unknown"

\* !params || !params.ids || !Array.isArray(params.ids)
InvalidGetStatesParams(params) ==
    \/ params.t # "object"
    \/ params.ids.t = "undefined"
    \/ params.ids.t # "array"

\* StateRecord including lc whenever a live value exists
StateRecordAlwaysLc(id, state, t) ==
    IF state # Undefined
    THEN [id |-> id, value |-> state[1].val, ack |-> state[1].ack,
          ts |-> state[1].ts, lc |-> state[1].lc]
    ELSE [id |-> id, value |-> JsNull, ack |-> FALSE, ts |-> t]

\* StateRecord reporting an id without a live value as an error
StateRecordAbsentError(id, state, t) ==
    IF state # Undefined
    THEN IF state[1].lc # state[1].ts
         THEN [id |-> id, value |-> state[1].val, ack |-> state[1].ack,
               ts |-> state[1].ts, lc |-> state[1].lc]
         ELSE [id |-> id, value |-> state[1].val, ack |-> state[1].ack,
               ts |-> state[1].ts]
    ELSE [id |-> id, value |-> JsNull, ack |-> FALSE, ts |-> t, error |-> "State not found"]

\* StateRecord stamping every record with the current time
StateRecordNow(id, state, t) ==
    IF state # Undefined
    THEN [id |-> id, value |-> state[1].val, ack |-> state[1].ack, ts |-> t]
    ELSE [id |-> id, value |-> JsNull, ack |-> FALSE, ts |-> t]

\* The record handleGetStates pushes for a read that returned
StateRecord(id, state, t) ==
    IF state # Undefined
    THEN IF state[1].lc # state[1].ts
         THEN [id |-> id, value |-> state[1].val, ack |-> state[1].ack,
               ts |-> state[1].ts, lc |-> state[1].lc]
         ELSE [id |-> id, value |-> state[1].val, ack |-> state[1].ack,
               ts |-> state[1].ts]
    ELSE [id |-> id, value |-> JsNull, ack |-> FALSE, ts |-> t]

\* ErrorRecord without the error field
ErrorRecordUnflagged(id, t, message) ==
    [id |-> id, value |-> JsNull, ack |-> FALSE, ts |-> t]

\* The record handleGetStates pushes for a read that threw
ErrorRecord(id, t, message) ==
    [id |-> id, value |-> JsNull, ack |-> FALSE, ts |-> t, error |-> message]

StatesResponse(recs) == Response(200, [ok |-> TRUE, data |-> [states |-> recs]])

\* A catch that logs the error and sends nothing
RpcCatchSilent(message) == [pc |-> "done", responses |-> <<>>]

\* catch (error) of the route: the error is logged and answered with status 500
RpcCatch(message) ==
    [pc |-> "done", responses |-> <<Response(500, [ok |-> FALSE, error |-> message])>>]

\* The part of the handler that runs before its first store call returns:
\* the position it reaches and the responses it has sent
FirstStep(body) ==
    CASE Route(body) = "throw" -> RpcCatch(DestructureErrorMsg(body))
      [] Route(body) = "method_required" ->
           [pc |-> "done",
            responses |-> <<Response(400, [ok |-> FALSE, error |-> "Method is required"])>>]
      [] Route(body) = "get_states" ->
           IF InvalidGetStatesParams(body.params)
           THEN [pc |-> "done",
                 responses |-> <<Response(400, [ok |-> FALSE,
                                     error |-> "Invalid params: ids array is required"])>>]
           ELSE IF body.params.ids.a = <<>>
           THEN [pc |-> "done", responses |-> <<StatesResponse(<<>>)>>]
           ELSE [pc |-> "get_states", responses |-> <<>>]
      [] Route(body) = "list_adapters" ->
           [pc |-> "list_adapters", responses |-> <<>>]
      [] OTHER ->
           [pc |-> "done",
            responses |-> <<Response(400, [ok |-> FALSE,
                                error |-> "Unknown method: " \o body.method[1]])>>]

NoAux == [k \in AuxNames |-> Undefined]

\* A request arrives and its handler runs up to its first store call
RpcPost(body) ==
    /\ pc = "idle"
    /\ clean' = TRUE
    /\ req' = body
    /\ pc' = FirstStep(body).pc
    /\ responses' = FirstStep(body).responses
    /\ idx' = 1
    /\ states' = <<>>
    /\ threw' = <<>>
    /\ objects' = <<>>
    /\ pending' = {}
    /\ aux' = NoAux
    /\ auxThrew' = {}
    /\ adapters' = <<>>
    /\ storeCalls' = IF FirstStep(body).pc = "done" THEN 0 ELSE 1
    /\ UNCHANGED envVars
    /\ UNCHANGED <<listVars, sysVars, mainVars>>

\* The handler returns once the response is sent; nothing of the request survives
RpcReturn ==
    /\ pc = "done"
    /\ pc' = "idle"
    /\ req' = BodyUndefined
    /\ idx' = 1
    /\ states' = <<>>
    /\ threw' = <<>>
    /\ objects' = <<>>
    /\ pending' = {}
    /\ aux' = NoAux
    /\ auxThrew' = {}
    /\ adapters' = <<>>
    /\ responses' = <<>>
    /\ storeCalls' = 0
    /\ UNCHANGED clean
    /\ UNCHANGED envVars
    /\ UNCHANGED <<listVars, sysVars, mainVars>>

\* One iteration of the loop of handleGetStates: the awaited read returns or throws
GetStateRead ==
    /\ pc = "get_states"
    /\ \E fails \in BOOLEAN :
         LET ids == req.params.ids.a
             id == ids[idx]
             rec == IF fails THEN ErrorRecord(id, now, StoreErrorMsg)
                    ELSE StateRecord(id, GetState(id), now)
             recs == Append(states, rec)
         IN /\ states' = recs
            /\ threw' = Append(threw, fails)
            /\ IF idx = Len(ids)
               THEN /\ pc' = "done"
                    /\ responses' = Append(responses, StatesResponse(recs))
                    /\ UNCHANGED <<idx, storeCalls>>
               ELSE /\ idx' = idx + 1
                    /\ storeCalls' = storeCalls + 1
                    /\ UNCHANGED <<pc, responses>>
    /\ UNCHANGED <<req, objects, pending, aux, auxThrew, adapters>>
    /\ UNCHANGED envVars
    /\ UNCHANGED histVars
    /\ UNCHANGED <<listVars, sysVars, mainVars>>

-----------------------------------------------------------------------------
(* McpServer.handleListAdapters *)

\* !obj || obj.type !== 'instance' is false for the row
IsInstanceRow(row) == row.obj # Undefined /\ row.obj[1].type = "instance"

\* The first row at or after position i that the loop does not skip, or 0
NextInstance(rows, i) ==
    LET S == {j \in i..Len(rows) : IsInstanceRow(rows[j])}
    IN IF S = {} THEN 0 ELSE CHOOSE j \in S : \A k \in S : j <= k

\* id.replace('system.adapter.', ''), for an id the pattern system.adapter.* matched
InstanceId(id) ==
    IF Len(id) > 2 /\ id[1] = "system" /\ id[2] = "adapter"
    THEN SubSeq(id, 3, Len(id))
    ELSE id

\* AdapterRecord taking any settled value for true
AdapterRecordTruthy(row, a) ==
    LET common == row.obj[1].common
    IN [id |-> InstanceId(row.id),
        name |-> common.name,
        version |-> IF common.version # "" THEN common.version ELSE "0.0.0",
        enabled |-> common.enabled = TRUE,
        alive |-> a["alive"] # Undefined,
        connected |-> a["connected"] # Undefined,
        uptime |-> IF a["uptime"] # Undefined /\ TypeOf(a["uptime"][1].val) = "number"
                   THEN a["uptime"][1].val ELSE "0",
        loglevel |-> IF common.loglevel # "" THEN common.loglevel ELSE "info"]

\* The record pushed for an instance once its three liveness reads have settled
AdapterRecord(row, a) ==
    LET common == row.obj[1].common
    IN [id |-> InstanceId(row.id),
        name |-> common.name,
        version |-> IF common.version # "" THEN common.version ELSE "0.0.0",
        enabled |-> common.enabled = TRUE,
        alive |-> a["alive"] # Undefined /\ a["alive"][1].val = "true",
        connected |-> a["connected"] # Undefined /\ a["connected"][1].val = "true",
        uptime |-> IF a["uptime"] # Undefined /\ TypeOf(a["uptime"][1].val) = "number"
                   THEN a["uptime"][1].val ELSE "0",
        loglevel |-> IF common.loglevel # "" THEN common.loglevel ELSE "info"]

AdaptersResponse(recs) == Response(200, [ok |-> TRUE, data |-> [adapters |-> recs]])

\* The loop runs from row i until it issues the three reads of an instance
\* (Promise.all) or, with no instance left, sends the response
ListAdaptersLoop(rows, i, recs) ==
    IF NextInstance(rows, i) = 0
    THEN /\ pc' = "done"
         /\ responses' = Append(responses, AdaptersResponse(recs))
         /\ pending' = {}
         /\ UNCHANGED <<idx, storeCalls>>
    ELSE /\ pc' = "list_adapters_aux"
         /\ idx' = NextInstance(rows, i)
         /\ pending' = AuxNames
         /\ storeCalls' = storeCalls + 3
         /\ UNCHANGED responses

\* await getForeignObjectsAsync('system.adapter.*', 'instance') returns or throws
ListAdaptersObjects ==
    /\ pc = "list_adapters"
    /\ \/ /\ pc' = "done"
          /\ responses' = Append(responses,
                 Response(500, [ok |-> FALSE, error |-> "Internal Server Error",
                                message |-> StoreErrorMsg]))
          /\ threw' = Append(threw, TRUE)
          /\ UNCHANGED <<objects, idx, pending, storeCalls>>
       \/ /\ objects' = instances
          /\ threw' = Append(threw, FALSE)
          /\ ListAdaptersLoop(instances, 1, adapters)
    /\ aux' = NoAux
    /\ UNCHANGED <<req, states, adapters, auxThrew>>
    /\ UNCHANGED envVars
    /\ UNCHANGED histVars
    /\ UNCHANGED <<listVars, sysVars, mainVars>>

\* One of the three liveness reads settles: its value, or null when it threw
\* (.catch(() => null)); the last one to settle resumes the loop
AuxRead(k) ==
    /\ pc = "list_adapters_aux"
    /\ k \in pending
    /\ \E fails \in BOOLEAN :
         LET row == objects[idx]
             got == IF fails THEN Undefined ELSE GetState(Append(row.id, k))
             a == [aux EXCEPT ![k] = got]
             recs == Append(adapters, AdapterRecord(row, a))
         IN /\ auxThrew' = IF fails THEN auxThrew \cup {<<idx, k>>} ELSE auxThrew
            /\ IF pending = {k}
               THEN /\ adapters' = recs
                    /\ aux' = NoAux
                    /\ ListAdaptersLoop(objects, idx + 1, recs)
               ELSE /\ aux' = a
                    /\ pending' = pending \ {k}
                    /\ UNCHANGED <<pc, idx, adapters, responses, storeCalls>>
    /\ UNCHANGED <<req, states, threw, objects>>
    /\ UNCHANGED envVars
    /\ UNCHANGED histVars
    /\ UNCHANGED <<listVars, sysVars, mainVars>>

-----------------------------------------------------------------------------
(* The environment: third-party writes to the store, and time *)

\* A third party writes a state: its last change lc is at or before its update ts
StoreWrite(id, val, ack, lc) ==
    /\ extWrites < MaxWrites
    /\ extWrites' = extWrites + 1
    /\ lc <= now
    /\ store' = [store EXCEPT ![id] = Some([val |-> val, ack |-> ack, ts |-> now, lc |-> lc])]
    /\ clean' = FALSE
    /\ prev' = [prev EXCEPT !.clean = FALSE]
    /\ UNCHANGED <<instances, now, nreq>>
    /\ UNCHANGED rpcVars
    /\ UNCHANGED <<listVars, sysVars, mainVars>>

Tick ==
    /\ now < MaxClock
    /\ now' = now + 1
    /\ UNCHANGED <<store, instances, extWrites>>
    /\ UNCHANGED rpcVars
    /\ UNCHANGED histVars
    /\ UNCHANGED <<listVars, sysVars, mainVars>>

-----------------------------------------------------------------------------
(* The dispatcher serving requests, one at a time, over a changing store *)

vars == <<store, instances, now, extWrites, nreq, pc, req, idx, states, threw, objects,
          pending, aux, auxThrew, adapters, responses, storeCalls, clean, prev, dbObjects,
          controlsOf, lpc, ldParams, ldObjects, roomMembers, ki, devicesMap, result,
          hostObj, osInfo, gathered, config, started, server, sockets, closing, unloaded,
          callbacks, httpPc, authorization>>

NoParams == [room |-> Undefined, limit |-> Undefined, offset |-> Undefined]
NoResult == [total |-> 0, devices |-> <<>>]

NoOs == [hostname |-> "", platform |-> "", version |-> <<>>, loadavg |-> 0,
         totalmem |-> 0, freemem |-> 0, uptime |-> 0]
NoInfo == [js_controller |-> ""]

\* The adapter of main.ts is constructed and nothing more
MainIdle ==
    /\ config = [auth |-> FALSE, username |-> <<>>, password |-> <<>>, secure |-> FALSE]
    /\ started = FALSE
    /\ server = "null"
    /\ sockets = <<>>
    /\ closing = FALSE
    /\ unloaded = FALSE
    /\ callbacks = 0
    /\ httpPc = "idle"
    /\ authorization = Undefined

\* No system_info request is served
SysIdle ==
    /\ hostObj = Undefined
    /\ osInfo = NoOs
    /\ gathered = NoInfo

\* No listDevices call is made
ListIdle ==
    /\ dbObjects = <<>>
    /\ controlsOf = <<>>
    /\ lpc = "idle"
    /\ ldParams = NoParams
    /\ ldObjects = <<>>
    /\ roomMembers = <<>>
    /\ ki = 1
    /\ devicesMap = <<>>
    /\ result = NoResult

\* No request is served
RpcIdle ==
    /\ instances = <<>>
    /\ extWrites = 0
    /\ nreq = 0
    /\ pc = "idle"
    /\ req = BodyUndefined
    /\ idx = 1
    /\ states = <<>>
    /\ threw = <<>>
    /\ objects = <<>>
    /\ pending = {}
    /\ aux = NoAux
    /\ auxThrew = {}
    /\ adapters = <<>>
    /\ responses = <<>>
    /\ storeCalls = 0
    /\ clean = FALSE
    /\ prev = [body |-> BodyUndefined, responses |-> <<>>, clean |-> FALSE]

Init ==
    /\ store = NoStates
    /\ instances \in InstanceRows
    /\ now = 0
    /\ extWrites = 0
    /\ nreq = 0
    /\ pc = "idle"
    /\ req = BodyUndefined
    /\ idx = 1
    /\ states = <<>>
    /\ threw = <<>>
    /\ objects = <<>>
    /\ pending = {}
    /\ aux = NoAux
    /\ auxThrew = {}
    /\ adapters = <<>>
    /\ responses = <<>>
    /\ storeCalls = 0
    /\ clean = FALSE
    /\ prev = [body |-> BodyUndefined, responses |-> <<>>, clean |-> FALSE]
    /\ ListIdle
    /\ SysIdle
    /\ MainIdle

Post(body) == RpcPost(body) /\ UNCHANGED callVars

Return == RpcReturn /\ UNCHANGED callVars

WriteState ==
    \E id \in StateIds, val \in Vals, ack \in BOOLEAN, lc \in 0..MaxClock :
        StoreWrite(id, val, ack, lc)

Next ==
    \/ \E body \in Bodies : Post(body)
    \/ Return
    \/ GetStateRead
    \/ ListAdaptersObjects
    \/ \E k \in AuxNames : AuxRead(k)
    \/ WriteState
    \/ Tick

Spec == Init /\ [][Next]_vars

-----------------------------------------------------------------------------
(* Two successive calls of get_states or set_state for one identifier, the    *)
(* first one remembered in prev                                               *)

PairBodies ==
    {Body(Some("get_states"), ParamsIds(IdsArray(<<id>>))) : id \in StateIds}
        \cup {Body(Some("set_state"), ParamsSet(id, v)) : id \in StateIds, v \in Vals}

PostNext(body) ==
    /\ RpcPost(body)
    /\ nreq < MaxRequests
    /\ nreq' = nreq + 1
    /\ UNCHANGED prev

ReturnNext ==
    /\ RpcReturn
    /\ prev' = [body |-> req, responses |-> responses, clean |-> clean]
    /\ UNCHANGED nreq

NextTwoCalls ==
    \/ \E body \in PairBodies : PostNext(body)
    \/ ReturnNext
    \/ GetStateRead
    \/ WriteState
    \/ Tick

SpecTwoCalls == Init /\ [][NextTwoCalls]_vars

-----------------------------------------------------------------------------
(* list_adapters calls over a store that holds liveness states *)

Live(val) == Some([val |-> val, ack |-> TRUE, ts |-> 0, lc |-> 0])

\* Stores with no liveness state, with the liveness states of a running
\* instance, and with liveness states of other types than expected
AdapterStores ==
    {NoStates,
     [NoStates EXCEPT ![Append(InstA, "alive")] = Live("true"),
                      ![Append(InstA, "connected")] = Live("true"),
                      ![Append(InstA, "uptime")] = Live("7")],
     [NoStates EXCEPT ![Append(InstA, "alive")] = Live("7"),
                      ![Append(InstA, "connected")] = Live("false"),
                      ![Append(InstA, "uptime")] = Live("true")]}

AdapterBodies == {Body(Some("list_adapters"), p) : p \in {ParamsUndefined, ParamsEmpty}}

InitAdapters ==
    /\ store \in AdapterStores
    /\ instances \in InstanceRows
    /\ now = 0
    /\ extWrites = 0
    /\ nreq = 0
    /\ pc = "idle"
    /\ req = BodyUndefined
    /\ idx = 1
    /\ states = <<>>
    /\ threw = <<>>
    /\ objects = <<>>
    /\ pending = {}
    /\ aux = NoAux
    /\ auxThrew = {}
    /\ adapters = <<>>
    /\ responses = <<>>
    /\ storeCalls = 0
    /\ clean = FALSE
    /\ prev = [body |-> BodyUndefined, responses |-> <<>>, clean |-> FALSE]
    /\ ListIdle
    /\ SysIdle
    /\ MainIdle

NextAdapters ==
    \/ \E body \in AdapterBodies : Post(body)
    \/ Return
    \/ ListAdaptersObjects
    \/ \E k \in AuxNames : AuxRead(k)

SpecAdapters == InitAdapters /\ [][NextAdapters]_vars

-----------------------------------------------------------------------------
(* POST /api/system_info, of the server of src/unnamed/part_001 *)

HostCommon(installedVersion) == Some([common |-> Some([installedVersion |-> installedVersion])])

\* What getForeignObjectAsync('system.host.<host>') may return
HostObjects ==
    {Undefined, Some([common |-> Undefined]), HostCommon(Undefined), HostCommon(Some("")),
     HostCommon(Some("7.0.6"))}

\* hostObj?.common?.installedVersion || 'unknown'
JsControllerVersion(h) ==
    IF /\ h # Undefined
       /\ h[1].common # Undefined
       /\ h[1].common[1].installedVersion # Undefined
       /\ h[1].common[1].installedVersion[1] # ""
    THEN h[1].common[1].installedVersion[1]
    ELSE "unknown"

MB == 1024 * 1024

\* Math.round(x / d) for x >= 0 and an even d
RoundDiv(x, d) == (x + d \div 2) \div d

\* Readings of node:os and process: process.version as "v" and the rest,
\* loadavg()[0] in thousandths, memory in bytes, uptime() in tenths of a second
OsReadings ==
    {[hostname |-> "iobroker-pi", platform |-> "linux", version |-> <<"v", "20.11.0">>,
      loadavg |-> 1235, totalmem |-> 1000 * MB + 600000, freemem |-> 300 * MB + 100,
      uptime |-> 864004],
     [hostname |-> "nuc", platform |-> "win32", version |-> <<"v", "18.19.1">>,
      loadavg |-> 0, totalmem |-> 512 * MB, freemem |-> 512 * MB, uptime |-> 5]}

\* What getForeignObjectsAsync('system.adapter.*', 'instance') may return
SysInstanceRows == {<<>>, <<RowA>>, <<RowA, RowB>>}

\* What the handler has computed when it issues the instance read
Gather(h, os) ==
    [js_controller |-> JsControllerVersion(h),
     hostname |-> os.hostname,
     platform |-> os.platform,
     node |-> Tail(os.version),
     cpu_load |-> RoundDiv(os.loadavg, 10),
     mem |-> [total_mb |-> RoundDiv(os.totalmem, MB),
              used_mb |-> RoundDiv(os.totalmem, MB) - RoundDiv(os.freemem, MB)],
     uptime_sec |-> RoundDiv(os.uptime, 10)]

\* res.json({ok: true, data: {..., instances}})
SystemInfoResponse(g, rows) ==
    Response(200, [ok |-> TRUE,
                   data |-> [f \in DOMAIN g \cup {"instances"} |->
                                IF f = "instances" THEN Len(rows) ELSE g[f]]])

\* A catch that answers with what was gathered before the error
SystemInfoCatchPartial(g) ==
    Response(500, [ok |-> FALSE, error |-> "Failed to get system information", data |-> g])

\* catch (error): the error is logged and answered with status 500
SystemInfoCatch(g) ==
    Response(500, [ok |-> FALSE, error |-> "Failed to get system information"])

\* A request arrives and the handler issues the host object read
SystemInfoPost ==
    /\ pc = "idle"
    /\ pc' = "system_info_host"
    /\ storeCalls' = 1
    /\ threw' = <<>>
    /\ responses' = <<>>
    /\ gathered' = NoInfo
    /\ UNCHANGED <<req, idx, states, objects, pending, aux, auxThrew, adapters>>
    /\ UNCHANGED <<hostObj, osInfo>>
    /\ UNCHANGED <<envVars, histVars, listVars, mainVars>>

\* await getForeignObjectAsync returns or throws; the handler reads os and
\* process and issues the instance read
SystemInfoHost ==
    /\ pc = "system_info_host"
    /\ \/ /\ threw' = Append(threw, TRUE)
          /\ pc' = "system_info_done"
          /\ responses' = <<SystemInfoCatch(gathered)>>
          /\ UNCHANGED <<gathered, storeCalls>>
       \/ /\ threw' = Append(threw, FALSE)
          /\ pc' = "system_info_instances"
          /\ gathered' = Gather(hostObj, osInfo)
          /\ storeCalls' = storeCalls + 1
          /\ UNCHANGED responses
    /\ UNCHANGED <<req, idx, states, objects, pending, aux, auxThrew, adapters>>
    /\ UNCHANGED <<hostObj, osInfo>>
    /\ UNCHANGED <<envVars, histVars, listVars, mainVars>>

\* await getForeignObjectsAsync returns or throws; the response is sent
SystemInfoInstances ==
    /\ pc = "system_info_instances"
    /\ \/ /\ threw' = Append(threw, TRUE)
          /\ responses' = <<SystemInfoCatch(gathered)>>
          /\ UNCHANGED objects
       \/ /\ threw' = Append(threw, FALSE)
          /\ objects' = instances
          /\ responses' = <<SystemInfoResponse(gathered, instances)>>
    /\ pc' = "system_info_done"
    /\ UNCHANGED <<req, idx, states, pending, aux, auxThrew, adapters, storeCalls>>
    /\ UNCHANGED sysVars
    /\ UNCHANGED <<envVars, histVars, listVars, mainVars>>

\* The handler returns once the response is sent
SystemInfoReturn ==
    /\ pc = "system_info_done"
    /\ pc' = "idle"
    /\ threw' = <<>>
    /\ objects' = <<>>
    /\ responses' = <<>>
    /\ storeCalls' = 0
    /\ gathered' = NoInfo
    /\ UNCHANGED <<req, idx, states, pending, aux, auxThrew, adapters>>
    /\ UNCHANGED <<hostObj, osInfo>>
    /\ UNCHANGED <<envVars, histVars, listVars, mainVars>>

InitSystemInfo ==
    /\ store = NoStates
    /\ instances \in SysInstanceRows
    /\ now = 0
    /\ extWrites = 0
    /\ nreq = 0
    /\ pc = "idle"
    /\ req = BodyUndefined
    /\ idx = 1
    /\ states = <<>>
    /\ threw = <<>>
    /\ objects = <<>>
    /\ pending = {}
    /\ aux = NoAux
    /\ auxThrew = {}
    /\ adapters = <<>>
    /\ responses = <<>>
    /\ storeCalls = 0
    /\ clean = FALSE
    /\ prev = [body |-> BodyUndefined, responses |-> <<>>, clean |-> FALSE]
    /\ ListIdle
    /\ MainIdle
    /\ hostObj \in HostObjects
    /\ osInfo \in OsReadings
    /\ gathered = NoInfo

NextSystemInfo ==
    \/ SystemInfoPost
    \/ SystemInfoHost
    \/ SystemInfoInstances
    \/ SystemInfoReturn

SpecSystemInfo == InitSystemInfo /\ [][NextSystemInfo]_vars

-----------------------------------------------------------------------------
(* listDevices: strings and names.  A display name or a room name is, like  *)
(* an identifier, a sequence of segments (<<"Living">>); roles, types and   *)
(* units are opaque tokens.                                                 *)

EmptyString == <<"">>

\* A string used as a condition: undefined and '' are falsy
Truthy(opt) == opt # Undefined /\ opt[1] # EmptyString

\* s.startsWith(`${p}.`)
StartsWithDot(s, p) == Len(s) > Len(p) /\ \A i \in 1..Len(p) : s[i] = p[i]

LowerToken(t) ==
    CASE t \in {"Living", "LIVING"} -> "living"
      [] t = "Living room" -> "living room"
      [] t = "Wohnzimmer" -> "wohnzimmer"
      [] t \in {"Bed", "BED"} -> "bed"
      [] t = "Nonexistent" -> "nonexistent"
      [] OTHER -> t

\* str.toLowerCase()
ToLowerCase(str) == [i \in 1..Len(str) |-> LowerToken(str[i])]

\* ioBroker.StringOrTranslated: a string, or an object of language variants
NameString(str) == [t |-> "string", s |-> str, en |-> Undefined, de |-> Undefined]
NameMap(en, de) == [t |-> "map", s |-> EmptyString, en |-> en, de |-> de]

\* name used as a condition: an object is truthy, a string unless it is ''
NameTruthy(name) == name # Undefined /\ (name[1].t = "map" \/ name[1].s # EmptyString)

GetName(name, lang, id) ==
    IF ~NameTruthy(name) THEN id
    ELSE IF name[1].t = "string" THEN name[1].s
    ELSE IF Truthy(name[1][lang]) THEN name[1][lang][1]
    ELSE IF Truthy(name[1].en) THEN name[1].en[1]
    ELSE IF Truthy(name[1].de) THEN name[1].de[1]
    ELSE id

ParentOf(id) == IF Len(id) <= 1 THEN EmptyString ELSE SubSeq(id, 1, Len(id) - 1)

-----------------------------------------------------------------------------
(* listDevices: the object store *)

ObjCommon(name, role, type, unit, members) ==
    [name |-> name, role |-> role, type |-> type, unit |-> unit, members |-> members,
     vendor |-> Undefined, model |-> Undefined]

StateObj(id, role, type, unit) ==
    [_id |-> id, type |-> "state", common |-> ObjCommon(Undefined, role, type, unit, Undefined)]

GroupObj(id, kind, name) ==
    [_id |-> id, type |-> kind,
     common |-> ObjCommon(name, Undefined, Undefined, Undefined, Undefined)]

EnumObj(id, name, members) ==
    [_id |-> id, type |-> "enum",
     common |-> ObjCommon(name, Undefined, Undefined, Undefined, members)]

D1 == <<"zigbee", "0", "dev1">>
D2 == <<"zigbee", "0", "dev2">>
RoomBed == <<"enum", "rooms", "bed">>
RoomLiving == <<"enum", "rooms", "living">>
FunctionLight == <<"enum", "functions", "light">>

LivingNames ==
    {Undefined, Some(NameString(<<"Living">>)),
     Some(NameMap(Some(<<"Living room">>), Some(<<"Wohnzimmer">>)))}

LivingMembers == {<<>>, <<D1>>, <<S2>>, <<D1, D2>>}

BedMembers == {<<D1>>, <<D2>>}

\* The objects of a store, in the order of their identifiers
Db(kind, withS2, bed, livingName, livingMembers) ==
    <<EnumObj(FunctionLight, Some(NameString(<<"Living">>)), Some(<<D1, D2>>))>>
        \o bed
        \o <<EnumObj(RoomLiving, livingName, Some(livingMembers)),
             GroupObj(D1, kind, Some(NameString(<<"Thermometer">>))),
             StateObj(S1, Some("value.temperature"), Some("number"), Some("C")),
             GroupObj(D2, "device", Undefined)>>
        \o (IF withS2 THEN <<StateObj(S2, Undefined, Undefined, Undefined)>> ELSE <<>>)

Dbs ==
    {Db(kind, withS2, bed, name, members) :
        kind \in {"device", "channel"}, withS2 \in BOOLEAN,
        bed \in {<<>>} \cup {<<EnumObj(RoomBed, Some(NameString(<<"Bed">>)), Some(m))>> :
                                m \in BedMembers},
        name \in LivingNames, members \in LivingMembers}

\* A store of more channels than the default limit, each with one state
ChannelId(i) == <<"hm-rpc", "0", ToString(i)>>

ManyDb ==
    [i \in 1..(2 * MaxDevices) |->
        IF i <= MaxDevices THEN GroupObj(ChannelId(i), "channel", Undefined)
        ELSE StateObj(ChannelId(i - MaxDevices) \o <<"LEVEL">>,
                      Some("level.dimmer"), Some("number"), Some("%"))]

Control(type, ids) == [type |-> type, states |-> [i \in 1..Len(ids) |-> [id |-> ids[i]]]]

\* What detector.detect may return for the grouping entries of a store
Classifiers ==
    {[id \in {D1, D2} |-> <<>>],
     [id \in {D1, D2} |->
        IF id = D1 THEN <<Control("temperature", <<S1>>)>>
        ELSE <<Control("humidity", <<S2>>)>>],
     [id \in {D1, D2} |->
        IF id = D1 THEN <<Control("thermostat", <<S1>>), Control("temperature", <<S1, S2>>)>>
        ELSE <<>>]}

LiveStores ==
    {NoStates,
     [NoStates EXCEPT ![S1] = Some([val |-> "7", ack |-> TRUE, ts |-> 1, lc |-> 0]),
                      ![S2] = Some([val |-> "true", ack |-> FALSE, ts |-> 1, lc |-> 1])]}

Rooms ==
    {Undefined, Some(EmptyString), Some(<<"living">>), Some(<<"Wohnzimmer">>),
     Some(<<"BED">>), Some(<<"Nonexistent">>)}

Limits == {Undefined} \cup {Some(n) : n \in 0..MaxLimit}
Offsets == {Undefined} \cup {Some(k) : k \in 0..MaxOffset}

\* adapter.getObjectViewAsync('system', type, {}).rows, when it does not throw
ViewRows(db, type) ==
    LET S == SelectSeq(db, LAMBDA o : o.type = type)
    IN [i \in 1..Len(S) |-> [id |-> S[i]._id, value |-> S[i]]]

-----------------------------------------------------------------------------
(* listDevices: the computation *)

\* obj[item.id] = item.value: a new key goes last, a known key keeps its place
Put(obj, id, value) ==
    IF \E i \in 1..Len(obj) : obj[i].id = id
    THEN [i \in 1..Len(obj) |-> IF obj[i].id = id THEN [id |-> id, value |-> value] ELSE obj[i]]
    ELSE Append(obj, [id |-> id, value |-> value])

\* rows.reduce((obj, item) => { obj[item.id] = item.value; return obj }, obj):
\* the keys in the order of their first row, each with the value of its last
Reduce(rows, obj) ==
    LET all == obj \o rows
        isFirst(i) == \A j \in 1..(i - 1) : all[j].id # all[i].id
        isLast(i) == \A j \in (i + 1)..Len(all) : all[j].id # all[i].id
        firsts == SelectSeq([i \in 1..Len(all) |-> i], isFirst)
        last(i) == CHOOSE j \in i..Len(all) : all[j].id = all[i].id /\ isLast(j)
    IN [n \in 1..Len(firsts) |->
           [id |-> all[firsts[n]].id, value |-> all[last(firsts[n])].value]]

\* allObjects(adapter), when none of its four reads throws
AllObjects(db) ==
    Reduce(ViewRows(db, "state") \o ViewRows(db, "channel") \o ViewRows(db, "device")
               \o ViewRows(db, "enum"), <<>>)

\* Object.keys(objects)
Keys(obj) == [i \in 1..Len(obj) |-> obj[i].id]

IsRoomEnum(enumObj) == StartsWithDot(enumObj._id, <<"enum", "rooms">>)

\* The condition of the room filter's lookup on the name of an enum
NameMatches(name, room) ==
    /\ NameTruthy(name)
    /\ IF name[1].t = "string"
       THEN ToLowerCase(name[1].s) = ToLowerCase(room)
       ELSE \E n \in {name[1].en, name[1].de} :
                n # Undefined /\ ToLowerCase(n[1]) = ToLowerCase(room)

\* FindRoomMembers without the break: the last room enum whose name matches
FindRoomMembersLast(rows, room) ==
    LET M == {i \in 1..Len(rows) :
                 IsRoomEnum(rows[i].value) /\ NameMatches(rows[i].value.common.name, room)}
        last == CHOOSE i \in M : \A j \in M : j <= i
    IN IF M = {} THEN <<>>
       ELSE IF rows[last].value.common.members = Undefined THEN <<>>
       ELSE rows[last].value.common.members[1]

\* roomMembers: the members of the first room enum whose name matches, or []
FindRoomMembers(rows, room) ==
    LET M == {i \in 1..Len(rows) :
                 IsRoomEnum(rows[i].value) /\ NameMatches(rows[i].value.common.name, room)}
        first == CHOOSE i \in M : \A j \in M : i <= j
    IN IF M = {} THEN <<>>
       ELSE IF rows[first].value.common.members = Undefined THEN <<>>
       ELSE rows[first].value.common.members[1]

\* A filter that lets every entry pass when the room has no members
DeviceInRoomOrNone(members, id) ==
    \/ members = <<>>
    \/ \E i \in 1..Len(members) :
        \/ members[i] = id
        \/ StartsWithDot(members[i], id)
        \/ StartsWithDot(id, members[i])
        \/ StartsWithDot(members[i], ParentOf(id))

\* deviceInRoom of the room filter
DeviceInRoom(members, id) ==
    \E i \in 1..Len(members) :
        \/ members[i] = id
        \/ StartsWithDot(members[i], id)
        \/ StartsWithDot(id, members[i])
        \/ StartsWithDot(members[i], ParentOf(id))

\* deviceRoom: the name of the first room enum that has the entry as a member
DeviceRoom(rows, id, lang) ==
    LET inRoom(ms) == \E i \in 1..Len(ms) :
                          \/ ms[i] = id
                          \/ StartsWithDot(ms[i], id)
                          \/ StartsWithDot(id, ms[i])
        M == {i \in 1..Len(rows) :
                 /\ IsRoomEnum(rows[i].value)
                 /\ rows[i].value.common.members # Undefined
                 /\ inRoom(rows[i].value.common.members[1])}
        first == CHOOSE i \in M : \A j \in M : i <= j
    IN IF M = {} THEN Undefined
       ELSE Some(GetName(rows[first].value.common.name, lang, rows[first].value._id))

\* detector.detect(options)
Detect(id) == IF id \in DOMAIN controlsOf THEN controlsOf[id] ELSE <<>>

\* deviceType taken from the last control
DeviceTypeLast(controls) ==
    IF Len(controls) > 0 THEN controls[Len(controls)].type ELSE "unknown"

DeviceType(controls) == IF Len(controls) > 0 THEN controls[1].type ELSE "unknown"

\* push x unless the list includes it already
PushNew(list, x) == IF \E i \in 1..Len(list) : list[i] = x THEN list ELSE Append(list, x)

RECURSIVE PushAllNew(_, _)
PushAllNew(list, xs) ==
    IF xs = <<>> THEN list ELSE PushAllNew(PushNew(list, Head(xs)), Tail(xs))

RECURSIVE Collect(_, _)
\* detectedStates: the state ids of all controls, each once
Collect(controls, detected) ==
    IF controls = <<>> THEN detected
    ELSE Collect(Tail(controls),
                 PushAllNew(detected, [i \in 1..Len(Head(controls).states) |->
                                          Head(controls).states[i].id]))

DetectedStates(controls) == Collect(controls, <<>>)

\* tags: the adapter name, the part of the id before its first dot
Tags(id) == IF Len(id) > 1 /\ id[1] # "" THEN <<<<id[1]>>>> ELSE <<>>

\* `device:${id}`
DeviceId(id) == <<"device:" \o id[1]>> \o Tail(id)

\* deviceState of a state object and the live value read for it
DeviceState(stateObj, stateValue) ==
    LET base == [id |-> stateObj._id,
                 role |-> IF stateObj.common.role # Undefined THEN stateObj.common.role[1]
                          ELSE "",
                 type |-> IF stateObj.common.type # Undefined THEN stateObj.common.type[1]
                          ELSE "mixed",
                 unit |-> stateObj.common.unit,
                 value |-> IF stateValue # Undefined THEN Some(stateValue[1].val) ELSE Undefined,
                 ack |-> IF stateValue # Undefined THEN Some(stateValue[1].ack) ELSE Undefined,
                 ts |-> IF stateValue # Undefined THEN Some(stateValue[1].ts) ELSE Undefined]
    IN IF stateValue # Undefined /\ stateValue[1].lc # stateValue[1].ts
       THEN [f \in DOMAIN base \cup {"lc"} |-> IF f = "lc" THEN stateValue[1].lc ELSE base[f]]
       ELSE base

\* deviceStates: the state objects at or under the entry, in key order, each
\* with the live value read for it
DeviceStates(obj, id) ==
    LET under == SelectSeq(obj, LAMBDA e : (StartsWithDot(e.id, id) \/ e.id = id)
                                             /\ e.value.type = "state")
    IN [i \in 1..Len(under) |-> DeviceState(under[i].value, GetState(under[i].id))]

RECURSIVE Roles(_, _)
\* roles: the non-empty roles of the states, each once
Roles(deviceStates, roles) ==
    IF deviceStates = <<>> THEN roles
    ELSE Roles(Tail(deviceStates),
               IF Head(deviceStates).role # "" THEN PushNew(roles, Head(deviceStates).role)
               ELSE roles)

\* The device record built for a grouping entry
Device(obj, rows, controls, id, entry, lang) ==
    [id |-> DeviceId(id),
     name |-> GetName(entry.common.name, lang, id),
     room |-> DeviceRoom(rows, id, lang),
     type |-> DeviceType(controls),
     vendor |-> entry.common.vendor,
     model |-> entry.common.model,
     roles |-> Roles(DeviceStates(obj, id), <<>>),
     states |-> DeviceStates(obj, id),
     tags |-> Tags(id)]

\* Every entry is kept, with or without states
KeepAlways(deviceStates) == TRUE

\* Only add devices that have states
Keep(deviceStates) == Len(deviceStates) > 0

\* Array.prototype.slice(start, end)
Slice(arr, start, end) ==
    LET from == IF start < 0 THEN (IF Len(arr) + start < 0 THEN 0 ELSE Len(arr) + start)
                ELSE (IF start > Len(arr) THEN Len(arr) ELSE start)
        to == IF end < 0 THEN (IF Len(arr) + end < 0 THEN 0 ELSE Len(arr) + end)
              ELSE (IF end > Len(arr) THEN Len(arr) ELSE end)
    IN SubSeq(arr, from + 1, to)

DefaultLimit == 100
DefaultOffset == 0

\* Pagination that takes the limit for the end of the slice
PaginateEndLimit(allDevices, p) ==
    LET limit == IF p.limit = Undefined THEN DefaultLimit ELSE p.limit[1]
        offset == IF p.offset = Undefined THEN DefaultOffset ELSE p.offset[1]
    IN [total |-> Len(allDevices), devices |-> Slice(allDevices, offset, limit)]

\* The result of listDevices for the devices of the map
Paginate(allDevices, p) ==
    LET limit == IF p.limit = Undefined THEN DefaultLimit ELSE p.limit[1]
        offset == IF p.offset = Undefined THEN DefaultOffset ELSE p.offset[1]
    IN [total |-> Len(allDevices), devices |-> Slice(allDevices, offset, offset + limit)]

-----------------------------------------------------------------------------
(* listDevices: the call, one step per awaited store call *)

IsGrouping(entry) == entry.type \in {"device", "channel"}

\* listDevices(adapter, params) is called and awaits allObjects
ListDevicesCall(p) ==
    /\ lpc = "idle"
    /\ lpc' = "allObjects"
    /\ ldParams' = p
    /\ UNCHANGED <<dbObjects, controlsOf, ldObjects, roomMembers, ki, devicesMap, result>>
    /\ UNCHANGED <<envVars, rpcVars, histVars, sysVars, mainVars>>

\* const objects = await allObjects(adapter): the reads return, or one throws
AllObjectsRead ==
    /\ lpc = "allObjects"
    /\ \/ /\ lpc' = "rejected:allObjects"
          /\ UNCHANGED ldObjects
       \/ /\ ldObjects' = AllObjects(dbObjects)
          /\ lpc' = IF Truthy(ldParams.room) THEN "roomEnums" ELSE "loop"
    /\ UNCHANGED <<dbObjects, controlsOf, ldParams, roomMembers, ki, devicesMap, result>>
    /\ UNCHANGED <<envVars, rpcVars, histVars, sysVars, mainVars>>

\* if (room): the enums are read for the members of the room, or the read throws
RoomEnumsRead ==
    /\ lpc = "roomEnums"
    /\ \/ /\ lpc' = "rejected:roomEnums"
          /\ UNCHANGED roomMembers
       \/ /\ roomMembers' = FindRoomMembers(ViewRows(dbObjects, "enum"), ldParams.room[1])
          /\ lpc' = "loop"
    /\ UNCHANGED <<dbObjects, controlsOf, ldParams, ldObjects, ki, devicesMap, result>>
    /\ UNCHANGED <<envVars, rpcVars, histVars, sysVars, mainVars>>

\* One iteration of for (const id of keys): the entry is skipped, or its room
\* and the live values of its states are read and its device is set, or the
\* read of the enums or the read of one of its states throws and the call
\* rejects
LoopStep ==
    /\ lpc = "loop"
    /\ ki <= Len(ldObjects)
    /\ LET id == ldObjects[ki].id
           entry == ldObjects[ki].value
           skipped == \/ ~IsGrouping(entry)
                      \/ Truthy(ldParams.room) /\ ~DeviceInRoom(roomMembers, id)
       IN \/ /\ skipped
             /\ ki' = ki + 1
             /\ UNCHANGED <<lpc, devicesMap>>
          \/ /\ ~skipped
             /\ lpc' = "rejected:deviceRoom"
             /\ UNCHANGED <<ki, devicesMap>>
          \/ /\ ~skipped
             /\ DeviceStates(ldObjects, id) # <<>>
             /\ lpc' = "rejected:state"
             /\ UNCHANGED <<ki, devicesMap>>
          \/ /\ ~skipped
             /\ ki' = ki + 1
             /\ devicesMap' =
                  IF Keep(DeviceStates(ldObjects, id))
                  THEN Put(devicesMap, id,
                           Device(ldObjects, ViewRows(dbObjects, "enum"), Detect(id),
                                  id, entry, "en"))
                  ELSE devicesMap
             /\ UNCHANGED lpc
    /\ UNCHANGED <<dbObjects, controlsOf, ldParams, ldObjects, roomMembers, result>>
    /\ UNCHANGED <<envVars, rpcVars, histVars, sysVars, mainVars>>

\* After the loop: the devices of the map are paginated and returned
ListDevicesReturn ==
    /\ lpc = "loop"
    /\ ki > Len(ldObjects)
    /\ lpc' = "returned"
    /\ result' = Paginate([i \in 1..Len(devicesMap) |-> devicesMap[i].value], ldParams)
    /\ UNCHANGED <<dbObjects, controlsOf, ldParams, ldObjects, roomMembers, ki, devicesMap>>
    /\ UNCHANGED <<envVars, rpcVars, histVars, sysVars, mainVars>>

InitList ==
    /\ RpcIdle
    /\ SysIdle
    /\ MainIdle
    /\ now = 0
    /\ \/ /\ dbObjects \in Dbs
          /\ controlsOf \in Classifiers
          /\ store \in LiveStores
       \/ /\ dbObjects = ManyDb
          /\ controlsOf = <<>>
          /\ store = NoStates
    /\ lpc = "idle"
    /\ ldParams = NoParams
    /\ ldObjects = <<>>
    /\ roomMembers = <<>>
    /\ ki = 1
    /\ devicesMap = <<>>
    /\ result = NoResult

NextList ==
    \/ \E room \in Rooms, limit \in Limits, offset \in Offsets :
           ListDevicesCall([room |-> room, limit |-> limit, offset |-> offset])
    \/ AllObjectsRead
    \/ RoomEnumsRead
    \/ LoopStep
    \/ ListDevicesReturn

\* One listDevices call over a store that does not change meanwhile
SpecList == InitList /\ [][NextList]_vars

-----------------------------------------------------------------------------
(* listDevices over a store that third parties change during the call: the  *)
(* four reads of allObjects are separate store calls                        *)

ViewOrder == <<"state", "channel", "device", "enum">>

\* The position of allObjects awaiting its i-th read
ViewPc(i) == IF i = 1 THEN "allObjects" ELSE "allObjects:" \o ViewOrder[i]

\* The i-th read of allObjects returns, or throws; after the last one the rows
\* are merged and allObjects returns
ViewRead(i) ==
    /\ lpc = ViewPc(i)
    /\ \/ /\ lpc' = "rejected:allObjects"
          /\ UNCHANGED ldObjects
       \/ LET rows == ldObjects \o ViewRows(dbObjects, ViewOrder[i])
          IN IF i < Len(ViewOrder)
             THEN /\ ldObjects' = rows
                  /\ lpc' = ViewPc(i + 1)
             ELSE /\ ldObjects' = Reduce(rows, <<>>)
                  /\ lpc' = IF Truthy(ldParams.room) THEN "roomEnums" ELSE "loop"
    /\ UNCHANGED <<dbObjects, controlsOf, ldParams, roomMembers, ki, devicesMap, result>>
    /\ UNCHANGED <<envVars, rpcVars, histVars, sysVars, mainVars>>

\* A third party writes an object of the store
ObjectWrite(i, obj) ==
    /\ extWrites < MaxWrites
    /\ extWrites' = extWrites + 1
    /\ dbObjects[i] # obj
    /\ dbObjects' = [dbObjects EXCEPT ![i] = obj]
    /\ UNCHANGED <<store, instances, now>>
    /\ UNCHANGED <<controlsOf, lpc, ldParams, ldObjects, roomMembers, ki, devicesMap, result>>
    /\ UNCHANGED <<rpcVars, histVars, sysVars, mainVars>>

\* A third party changes the members of a room
EnumWrite ==
    \E i \in 1..Len(dbObjects), members \in LivingMembers :
        /\ IsRoomEnum(dbObjects[i])
        /\ ObjectWrite(i, [dbObjects[i] EXCEPT !.common.members = Some(members)])

\* A third party turns a channel into a device or a device into a channel
ObjectRetype ==
    \E i \in 1..Len(dbObjects) :
        /\ IsGrouping(dbObjects[i])
        /\ ObjectWrite(i, [dbObjects[i] EXCEPT
                               !.type = IF @ = "channel" THEN "device" ELSE "channel"])

LiveDbs ==
    {Db(kind, TRUE, <<>>, Some(NameString(<<"Living">>)), members) :
        kind \in {"device", "channel"}, members \in LivingMembers}

LiveRooms == {Undefined, Some(<<"living">>)}

InitListLive ==
    /\ RpcIdle
    /\ SysIdle
    /\ MainIdle
    /\ store = NoStates
    /\ now = 0
    /\ dbObjects \in LiveDbs
    /\ controlsOf = <<>>
    /\ lpc = "idle"
    /\ ldParams = NoParams
    /\ ldObjects = <<>>
    /\ roomMembers = <<>>
    /\ ki = 1
    /\ devicesMap = <<>>
    /\ result = NoResult

NextListLive ==
    \/ \E room \in LiveRooms :
           ListDevicesCall([room |-> room, limit |-> Undefined, offset |-> Undefined])
    \/ \E i \in 1..Len(ViewOrder) : ViewRead(i)
    \/ RoomEnumsRead
    \/ LoopStep
    \/ ListDevicesReturn
    \/ EnumWrite
    \/ ObjectRetype

SpecListLive == InitListLive /\ [][NextListLive]_vars

-----------------------------------------------------------------------------
(* listDevices with a room filter over stores of two named rooms *)

RoomNames == LivingNames \cup {Some(NameMap(Undefined, Some(<<"LIVING">>)))}

RoomDbs ==
    {Db("device", TRUE, <<EnumObj(RoomBed, bedName, Some(bedMembers))>>, name, members) :
        bedName \in RoomNames, bedMembers \in BedMembers,
        name \in RoomNames, members \in LivingMembers}

RoomQueries == {Some(<<"living">>), Some(<<"LIVING">>), Some(<<"Wohnzimmer">>)}

InitRooms ==
    /\ RpcIdle
    /\ SysIdle
    /\ MainIdle
    /\ store = NoStates
    /\ now = 0
    /\ dbObjects \in RoomDbs
    /\ controlsOf = <<>>
    /\ lpc = "idle"
    /\ ldParams = NoParams
    /\ ldObjects = <<>>
    /\ roomMembers = <<>>
    /\ ki = 1
    /\ devicesMap = <<>>
    /\ result = NoResult

NextRooms ==
    \/ \E room \in RoomQueries :
           ListDevicesCall([room |-> room, limit |-> Undefined, offset |-> Undefined])
    \/ AllObjectsRead
    \/ RoomEnumsRead
    \/ LoopStep
    \/ ListDevicesReturn

SpecRooms == InitRooms /\ [][NextRooms]_vars

-----------------------------------------------------------------------------
(* get_states requests and a listDevices call over one store of live values *)

RecordBodies ==
    {Body(Some("get_states"), ParamsIds(IdsArray(a))) : a \in IdSeqs \ {<<>>}}

InitRecords ==
    /\ RpcIdle
    /\ SysIdle
    /\ MainIdle
    /\ store \in LiveStores
    /\ now = 0
    /\ dbObjects \in LiveDbs
    /\ controlsOf = <<>>
    /\ lpc = "idle"
    /\ ldParams = NoParams
    /\ ldObjects = <<>>
    /\ roomMembers = <<>>
    /\ ki = 1
    /\ devicesMap = <<>>
    /\ result = NoResult

NextRecords ==
    \/ \E body \in RecordBodies : Post(body)
    \/ Return
    \/ GetStateRead
    \/ ListDevicesCall(NoParams)
    \/ AllObjectsRead
    \/ LoopStep
    \/ ListDevicesReturn

SpecRecords == InitRecords /\ [][NextRecords]_vars

-----------------------------------------------------------------------------
(* main.ts: the authentication middleware *)
(* A string is the sequence of its characters; the base64 text of a string *)
(* str is [base64 |-> str]; a header is the list of its parts between      *)
(* spaces.                                                                 *)

\* arr[i - 1] of JavaScript
At(arr, i) == IF i <= Len(arr) THEN Some(arr[i]) ELSE Undefined

\* str.split(sep)
RECURSIVE Split(_, _)
Split(str, sep) ==
    IF \A i \in 1..Len(str) : str[i] # sep THEN <<str>>
    ELSE LET k == CHOOSE i \in 1..Len(str) :
                      str[i] = sep /\ \A j \in 1..(i - 1) : str[j] # sep
         IN <<SubSeq(str, 1, k - 1)>> \o Split(SubSeq(str, k + 1, Len(str)), sep)

\* Buffer.from(word, 'base64').toString()
FromBase64(word) == word.base64

\* What a client may put in the base64 part of the header
Credentials == UNION {[1..n -> {"u", "p", ":"}] : n \in 0..MaxCred}

\* req.headers.authorization, split at its spaces
Headers ==
    {Undefined, Some(<<"Basic">>)}
        \cup {Some(<<scheme, [base64 |-> c]>>) : scheme \in {"Basic", "Bearer"}, c \in Credentials}

AuthConfigs ==
    {[auth |-> a, username |-> <<"u">>, password |-> pw, secure |-> FALSE] :
        a \in BOOLEAN, pw \in {<<"p">>, <<"p", ":", "p">>}}

\* The authentication middleware: the position of the request after it
AuthMiddleware(cfg, auth) ==
    IF auth = Undefined THEN "401:Authentication required"
    ELSE IF At(auth[1], 2) = Undefined THEN "500"
    ELSE LET credentials == Split(FromBase64(auth[1][2]), ":")
             username == At(credentials, 1)
             password == At(credentials, 2)
         IN IF username = Some(cfg.username) /\ password = Some(cfg.password)
            THEN "route"
            ELSE "401:Invalid credentials"

\* A request arrives: it is at the authentication middleware if there is one
Request(auth) ==
    /\ server = "listening"
    /\ httpPc = "idle"
    /\ authorization' = auth
    /\ httpPc' = IF config.auth THEN "auth" ELSE "route"
    /\ UNCHANGED <<config, started, server, sockets, closing, unloaded, callbacks>>
    /\ UNCHANGED <<envVars, rpcVars, histVars, listVars, sysVars>>

\* The middleware calls next(), answers 401, or throws and the error handler
\* answers 500
Authenticate ==
    /\ httpPc = "auth"
    /\ httpPc' = AuthMiddleware(config, authorization)
    /\ UNCHANGED <<config, started, server, sockets, closing, unloaded, callbacks,
                   authorization>>
    /\ UNCHANGED <<envVars, rpcVars, histVars, listVars, sysVars>>

\* The route handler, or the 404 handler, answers
RouteHandler ==
    /\ httpPc = "route"
    /\ httpPc' = "handled"
    /\ UNCHANGED <<config, started, server, sockets, closing, unloaded, callbacks,
                   authorization>>
    /\ UNCHANGED <<envVars, rpcVars, histVars, listVars, sysVars>>

InitAuth ==
    /\ RpcIdle
    /\ SysIdle
    /\ ListIdle
    /\ store = NoStates
    /\ now = 0
    /\ config \in AuthConfigs
    /\ started = TRUE
    /\ server = "listening"
    /\ sockets = <<>>
    /\ closing = FALSE
    /\ unloaded = FALSE
    /\ callbacks = 0
    /\ httpPc = "idle"
    /\ authorization = Undefined

NextAuth ==
    \/ \E auth \in Headers : Request(auth)
    \/ Authenticate
    \/ RouteHandler

SpecAuth == InitAuth /\ [][NextAuth]_vars

-----------------------------------------------------------------------------
(* main.ts: startup, connections and shutdown *)

\* onReady: startServer creates the server and calls listen, or rejects on the
\* certificates before it creates one
OnReady ==
    /\ ~started
    /\ ~unloaded
    /\ started' = TRUE
    /\ \/ config.secure /\ UNCHANGED server
       \/ server' = "starting"
    /\ UNCHANGED <<config, sockets, closing, unloaded, callbacks, httpPc, authorization>>
    /\ UNCHANGED <<envVars, rpcVars, histVars, listVars, sysVars>>

\* The callback of listen
ListenCallback ==
    /\ server = "starting"
    /\ ~closing
    /\ server' = "listening"
    /\ UNCHANGED <<config, started, sockets, closing, unloaded, callbacks, httpPc,
                   authorization>>
    /\ UNCHANGED <<envVars, rpcVars, histVars, listVars, sysVars>>

\* The 'error' event of the server: the port is in use
ErrorEvent ==
    /\ server = "starting"
    /\ server' = "failed"
    /\ UNCHANGED <<config, started, sockets, closing, unloaded, callbacks, httpPc,
                   authorization>>
    /\ UNCHANGED <<envVars, rpcVars, histVars, listVars, sysVars>>

\* A client connects and starts to send a request
Connect(s) ==
    /\ server = "listening"
    /\ ~closing
    /\ sockets[s] = "closed"
    /\ sockets' = [sockets EXCEPT ![s] = "receiving"]
    /\ UNCHANGED <<config, started, server, closing, unloaded, callbacks, httpPc,
                   authorization>>
    /\ UNCHANGED <<envVars, rpcVars, histVars, listVars, sysVars>>

\* The client has sent its request in full
RequestSent(s) ==
    /\ sockets[s] = "receiving"
    /\ sockets' = [sockets EXCEPT ![s] = "handling"]
    /\ UNCHANGED <<config, started, server, closing, unloaded, callbacks, httpPc,
                   authorization>>
    /\ UNCHANGED <<envVars, rpcVars, histVars, listVars, sysVars>>

\* The server answers; the connection is kept alive
Respond(s) ==
    /\ sockets[s] = "handling"
    /\ sockets' = [sockets EXCEPT ![s] = "idle"]
    /\ UNCHANGED <<config, started, server, closing, unloaded, callbacks, httpPc,
                   authorization>>
    /\ UNCHANGED <<envVars, rpcVars, histVars, listVars, sysVars>>

\* The client starts to send another request on the connection
NextRequest(s) ==
    /\ sockets[s] = "idle"
    /\ sockets' = [sockets EXCEPT ![s] = "receiving"]
    /\ UNCHANGED <<config, started, server, closing, unloaded, callbacks, httpPc,
                   authorization>>
    /\ UNCHANGED <<envVars, rpcVars, histVars, listVars, sysVars>>

\* The server ends a connection that stayed idle
KeepAliveTimeout(s) ==
    /\ sockets[s] = "idle"
    /\ sockets' = [sockets EXCEPT ![s] = "closed"]
    /\ UNCHANGED <<config, started, server, closing, unloaded, callbacks, httpPc,
                   authorization>>
    /\ UNCHANGED <<envVars, rpcVars, histVars, listVars, sysVars>>

\* The client ends its connection
ClientEnd(s) ==
    /\ sockets[s] \in {"receiving", "idle"}
    /\ sockets' = [sockets EXCEPT ![s] = "closed"]
    /\ UNCHANGED <<config, started, server, closing, unloaded, callbacks, httpPc,
                   authorization>>
    /\ UNCHANGED <<envVars, rpcVars, histVars, listVars, sysVars>>

\* onUnload: without a server the callback is invoked; with one, server.close
\* takes the callback for the 'close' event, or throws and the catch invokes it
OnUnload ==
    /\ ~unloaded
    /\ unloaded' = TRUE
    /\ IF server = "null"
       THEN /\ callbacks' = callbacks + 1
            /\ UNCHANGED closing
       ELSE \/ /\ closing' = TRUE
               /\ UNCHANGED callbacks
            \/ /\ callbacks' = callbacks + 1
               /\ UNCHANGED closing
    /\ UNCHANGED <<config, started, server, sockets, httpPc, authorization>>
    /\ UNCHANGED <<envVars, rpcVars, histVars, listVars, sysVars>>

\* The 'close' event, emitted once no connection is left: the callback that
\* server.close took is invoked
CloseEvent ==
    /\ closing
    /\ server # "closed"
    /\ \A s \in 1..Len(sockets) : sockets[s] = "closed"
    /\ server' = "closed"
    /\ callbacks' = callbacks + 1
    /\ UNCHANGED <<config, started, sockets, closing, unloaded, httpPc, authorization>>
    /\ UNCHANGED <<envVars, rpcVars, histVars, listVars, sysVars>>

InitUnload ==
    /\ RpcIdle
    /\ SysIdle
    /\ ListIdle
    /\ store = NoStates
    /\ now = 0
    /\ config \in {[auth |-> FALSE, username |-> <<>>, password |-> <<>>, secure |-> b] :
                      b \in BOOLEAN}
    /\ started = FALSE
    /\ server = "null"
    /\ sockets = [s \in 1..MaxSockets |-> "closed"]
    /\ closing = FALSE
    /\ unloaded = FALSE
    /\ callbacks = 0
    /\ httpPc = "idle"
    /\ authorization = Undefined

NextUnload ==
    \/ OnReady
    \/ ListenCallback
    \/ ErrorEvent
    \/ \E s \in 1..MaxSockets : Connect(s)
    \/ \E s \in 1..MaxSockets : RequestSent(s)
    \/ \E s \in 1..MaxSockets : Respond(s)
    \/ \E s \in 1..MaxSockets : NextRequest(s)
    \/ \E s \in 1..MaxSockets : KeepAliveTimeout(s)
    \/ \E s \in 1..MaxSockets : ClientEnd(s)
    \/ OnUnload
    \/ CloseEvent

\* The event loop runs what the server has to do: it answers the requests it
\* has received, ends the connections that stay idle, and emits 'close'.  What
\* the clients do with their connections is theirs to decide.
SpecUnload ==
    /\ InitUnload
    /\ [][NextUnload]_vars
    /\ WF_vars(CloseEvent)
    /\ \A s \in 1..MaxSockets : WF_vars(Respond(s)) /\ WF_vars(KeepAliveTimeout(s))

-----------------------------------------------------------------------------
(* Properties of listDevices *)

\* The state objects of the snapshot at or under an entry
StatesUnder(obj, id) ==
    {i \in 1..Len(obj) : (obj[i].id = id \/ StartsWithDot(obj[i].id, id))
                             /\ obj[i].value.type = "state"}

\* The ordered list of the devices of the store that survive grouping,
\* enrichment and the room filter
RefDevices(room) ==
    LET obj == AllObjects(dbObjects)
        rows == ViewRows(dbObjects, "enum")
        members == IF Truthy(room) THEN FindRoomMembers(rows, room[1]) ELSE <<>>
        kept == SelectSeq(obj, LAMBDA e :
                    /\ IsGrouping(e.value)
                    /\ Truthy(room) => DeviceInRoom(members, e.id)
                    /\ StatesUnder(obj, e.id) # {})
    IN [i \in 1..Len(kept) |->
           Device(obj, rows, Detect(kept[i].id), kept[i].id, kept[i].value, "en")]

\* L[k .. k+n)
SubList(L, k, n) ==
    IF k >= Len(L) THEN <<>>
    ELSE SubSeq(L, k + 1, IF k + n > Len(L) THEN Len(L) ELSE k + n)

\* C1: listDevices returns total = len(L) and devices = L[k .. k+n), where L is
\* the list of the devices that survive grouping, enrichment and the room
\* filter, n the limit (100 when omitted) and k the offset (0 when omitted).
C1_PaginationLaw ==
    lpc = "returned" =>
        LET L == RefDevices(ldParams.room)
            n == IF ldParams.limit = Undefined THEN 100 ELSE ldParams.limit[1]
            k == IF ldParams.offset = Undefined THEN 0 ELSE ldParams.offset[1]
        IN /\ result.total = Len(L)
           /\ result.devices = SubList(L, k, n)

\* A call with offset 1 and no limit returns 100 of more than 100 devices
C1_Witness ==
    /\ lpc = "returned"
    /\ ldParams.limit = Undefined
    /\ ldParams.offset = Some(1)
    /\ Len(RefDevices(ldParams.room)) > 100
    /\ Len(result.devices) = 100
    /\ result.devices[1] = RefDevices(ldParams.room)[2]

\* The resolved room of the device is the room R, ignoring case
InRoom(device, R) ==
    device.room # Undefined /\ ToLowerCase(device.room[1]) = ToLowerCase(R)

\* C2: with room filter R, total is the number of devices, computed without
\* any filter, whose resolved room is R ignoring case, and every device
\* returned carries the room R.
C2_RoomFilterTotal ==
    (lpc = "returned" /\ Truthy(ldParams.room)) =>
        LET all == RefDevices(Undefined)
            R == ldParams.room[1]
        IN /\ result.total = Cardinality({i \in 1..Len(all) : InRoom(all[i], R)})
           /\ \A i \in 1..Len(result.devices) : InRoom(result.devices[i], R)

\* C3: every device set in the map or returned has a non-empty states list; a
\* grouping entry with no state entry attached is not among them and is not
\* counted in total.
C3_NonEmptyStates ==
    /\ \A i \in 1..Len(devicesMap) : Len(devicesMap[i].value.states) > 0
    /\ lpc = "returned" =>
         /\ \A i \in 1..Len(result.devices) : Len(result.devices[i].states) > 0
         /\ \A i \in 1..Len(ldObjects) :
              (IsGrouping(ldObjects[i].value) /\ StatesUnder(ldObjects, ldObjects[i].id) = {})
                  => /\ \A j \in 1..Len(devicesMap) : devicesMap[j].id # ldObjects[i].id
                     /\ \A j \in 1..Len(result.devices) :
                            result.devices[j].id # DeviceId(ldObjects[i].id)
         /\ result.total =
                Cardinality({i \in 1..Len(ldObjects) :
                    /\ IsGrouping(ldObjects[i].value)
                    /\ Truthy(ldParams.room) => DeviceInRoom(roomMembers, ldObjects[i].id)
                    /\ StatesUnder(ldObjects, ldObjects[i].id) # {}})

\* A call without a room filter returns devices from a store that holds a
\* grouping entry without states
C3_Witness ==
    /\ lpc = "returned"
    /\ ~Truthy(ldParams.room)
    /\ result.devices # <<>>
    /\ \E i \in 1..Len(ldObjects) :
           IsGrouping(ldObjects[i].value) /\ StatesUnder(ldObjects, ldObjects[i].id) = {}

-----------------------------------------------------------------------------
(* Properties of the dispatcher *)

\* The request being served names this method
IsMethod(body, m) == body.kind = "object" /\ body.method = Some(m)

\* The request being served is get_states with an array of ids
IsGetStates(body) ==
    /\ IsMethod(body, "get_states")
    /\ body.params.t = "object"
    /\ body.params.ids.t = "array"

\* The record agrees with what the store holds for its id
FromStore(rec) ==
    IF store[rec.id] # Undefined
    THEN /\ rec.value = store[rec.id][1].val
         /\ rec.ack = store[rec.id][1].ack
         /\ rec.ts = store[rec.id][1].ts
    ELSE /\ rec.value = JsNull
         /\ rec.ack = FALSE
         /\ rec.ts <= now

\* C4: a get_states call with ids i1..in answers with one success envelope of
\* exactly n records, record j for id ij in request order (duplicates kept);
\* the record of a read that threw carries an error field, the record of a
\* read that returned carries none and, no write having come since the
\* request arrived, has the value, ack and ts the store holds.
C4_PartialFailureIsolation ==
    (pc = "done" /\ IsGetStates(req)) =>
        /\ Len(responses) = 1
        /\ responses[1].status = 200
        /\ responses[1].body.ok = TRUE
        /\ LET ids == req.params.ids.a
               recs == responses[1].body.data.states
           IN /\ Len(recs) = Len(ids)
              /\ \A j \in 1..Len(ids) :
                   /\ recs[j].id = ids[j]
                   /\ threw[j] => "error" \in DOMAIN recs[j]
                   /\ ~threw[j] => /\ "error" \notin DOMAIN recs[j]
                                   /\ clean => FromStore(recs[j])

\* A call for two ids answered while the first read threw and the second
\* returned a stored value
C4_Witness ==
    /\ pc = "done"
    /\ IsGetStates(req)
    /\ Len(req.params.ids.a) = 2
    /\ threw = <<TRUE, FALSE>>
    /\ clean
    /\ store[req.params.ids.a[2]] # Undefined

\* The request is get_states for the one identifier id
IsGetOne(body, id) == IsGetStates(body) /\ body.params.ids.a = <<id>>

\* The record of the single id of an answered get_states call
OnlyRecord(resps) == resps[1].body.data.states[1]

\* Two get_states calls for id, the second one answered, no read of either
\* having thrown and no write having come since the first one arrived
TwoReads(id) ==
    /\ pc = "done"
    /\ IsGetOne(req, id)
    /\ IsGetOne(prev.body, id)
    /\ prev.clean
    /\ "error" \notin DOMAIN OnlyRecord(prev.responses)
    /\ "error" \notin DOMAIN OnlyRecord(responses)

\* C5 as stated: two get_states calls for X with no write between them return
\* identical value, ack and ts, whether or not a live value exists for X
\* (stated here for reads that do not throw).
C5_Idempotent_AsStated ==
    \A id \in StateIds :
        TwoReads(id) =>
            /\ OnlyRecord(responses).value = OnlyRecord(prev.responses).value
            /\ OnlyRecord(responses).ack = OnlyRecord(prev.responses).ack
            /\ OnlyRecord(responses).ts = OnlyRecord(prev.responses).ts

\* C5, amended: two get_states calls for X with no write between them, whose
\* reads do not throw, return identical value and ack, and identical ts when a
\* live value exists for X; without one, ts is the time of each call.
C5_Idempotent ==
    \A id \in StateIds :
        TwoReads(id) =>
            /\ OnlyRecord(responses).value = OnlyRecord(prev.responses).value
            /\ OnlyRecord(responses).ack = OnlyRecord(prev.responses).ack
            /\ store[id] # Undefined =>
                   OnlyRecord(responses).ts = OnlyRecord(prev.responses).ts
            /\ store[id] = Undefined =>
                   /\ OnlyRecord(prev.responses).ts <= OnlyRecord(responses).ts
                   /\ OnlyRecord(responses).ts <= now

\* Two reads of a stored value, the second one at a later time than the write
C5_Witness ==
    \E id \in StateIds :
        /\ TwoReads(id)
        /\ store[id] # Undefined
        /\ store[id][1].ts < now

\* C6: set_state {id: X, value: V} succeeds and a get_states call for X
\* dispatched right after it, with no write in between, returns value V.
C6_RoundTrip ==
    \A id \in StateIds, v \in Vals :
        (/\ pc = "done"
         /\ IsGetOne(req, id)
         /\ prev.body = Body(Some("set_state"), ParamsSet(id, v))
         /\ prev.clean
         /\ "error" \notin DOMAIN OnlyRecord(responses))
        => /\ prev.responses[1].body.ok = TRUE
           /\ OnlyRecord(responses).value = v

\* The methods the dispatcher recognizes
Recognized == {"get_states", "list_adapters"}

\* C7: a method name that is present and not recognized is answered with the
\* client-error envelope {ok: false, error: "Unknown method: m"} and no call
\* to the external store.
C7_UnknownMethod ==
    (/\ pc = "done"
     /\ req.kind = "object"
     /\ req.method # Undefined
     /\ req.method[1] \notin Recognized \cup {""})
    => /\ responses = <<Response(400, [ok |-> FALSE,
                                       error |-> "Unknown method: " \o req.method[1]])>>
       /\ storeCalls = 0
       /\ threw = <<>>

\* The scenario of the specification: dispatch("bogus_method", {}) answered
C7_Witness == pc = "done" /\ IsMethod(req, "bogus_method") /\ Len(responses) = 1

\* C8: the method list_devices, advertised by /api/capabilities, is answered
\* with a success envelope.
C8_ListDevicesRecognized ==
    (pc = "done" /\ IsMethod(req, "list_devices")) =>
        /\ responses[1].status = 200
        /\ responses[1].body.ok = TRUE
        /\ "data" \in DOMAIN responses[1].body

\* The envelope {ok: true, data} or {ok: false, error: <string>}
WellFormed(b) ==
    /\ "ok" \in DOMAIN b
    /\ IF b.ok
       THEN "data" \in DOMAIN b /\ "error" \notin DOMAIN b
       ELSE "error" \in DOMAIN b /\ "data" \notin DOMAIN b /\ b.error \in STRING

\* C9: every request is answered exactly once, with a well-formed envelope:
\* nothing is sent before the handler is done, one response is sent when it is,
\* an exception (the body cannot be destructured, the instance read throws) is
\* answered with status 500 and ok = false, and a handler waiting for a store
\* call always resumes when the call returns or throws.
C9_OneEnvelope ==
    /\ pc \in {"get_states", "list_adapters", "list_adapters_aux"} => responses = <<>>
    /\ pc = "get_states" => ENABLED GetStateRead
    /\ pc = "list_adapters" => ENABLED ListAdaptersObjects
    /\ pc = "list_adapters_aux" => \E k \in AuxNames : ENABLED AuxRead(k)
    /\ pc = "done" =>
         /\ Len(responses) = 1
         /\ WellFormed(responses[1].body)
         /\ (req.kind # "object" \/ (IsMethod(req, "list_adapters") /\ threw = <<TRUE>>))
                => responses[1].status = 500 /\ responses[1].body.ok = FALSE

\* A request without a body, and a list_adapters call whose instance read
\* threw, both answered
C9_Witness ==
    /\ pc = "done"
    /\ Len(responses) = 1
    /\ req.kind # "object" \/ (IsMethod(req, "list_adapters") /\ threw = <<TRUE>>)

\* C10: a get_states call whose ids is not a non-empty sequence (params absent,
\* ids absent, ids not a sequence, ids empty) is answered with a client-error
\* envelope and reads nothing from the store.
C10_IdsRequired ==
    (/\ pc = "done"
     /\ IsMethod(req, "get_states")
     /\ (req.params.t # "object" \/ req.params.ids.t # "array" \/ req.params.ids.a = <<>>))
    => /\ responses[1].status = 400
       /\ responses[1].body.ok = FALSE
       /\ storeCalls = 0

-----------------------------------------------------------------------------
(* Properties of the dispatcher: validation, absent states, liveness reads *)

\* The response is a client-error envelope
ClientError(r) == r.status \in 400..499 /\ r.body.ok = FALSE

\* C11: every request that carries no method name (an object without method,
\* a malformed JSON body, no parsed body at all) is answered with a
\* client-error envelope, never a server-error one.
C11_MethodRequired ==
    (pc = "done" /\ (req.kind # "object" \/ MethodMissing(req.method))) =>
        /\ Len(responses) = 1
        /\ ClientError(responses[1])

\* The liveness read of row i named k, as the store answers it, or nothing
\* when the read threw
LiveRead(i, k) ==
    IF <<i, k>> \in auxThrew THEN Undefined ELSE GetState(Append(objects[i].id, k))

\* The positions of the instance-kind entries among the rows, in order
InstancePositions(rows) ==
    SelectSeq([i \in 1..Len(rows) |-> i], LAMBDA i : IsInstanceRow(rows[i]))

\* C13: a list_adapters call whose instance read returned answers with one
\* record per instance-kind entry, in order; the three liveness reads of an
\* instance are pending together and any of them may settle next; a read that
\* threw reports its field as absent (alive = false, connected = false,
\* uptime = 0) and a read that returned reports what the store holds.
C13_LivenessIsolation ==
    /\ pc = "list_adapters_aux" =>
          /\ pending # {}
          /\ \A k \in pending : ENABLED AuxRead(k)
          /\ \A k \in AuxNames \ pending : aux[k] = LiveRead(idx, k)
    /\ (pc = "done" /\ IsMethod(req, "list_adapters") /\ threw = <<FALSE>>) =>
          /\ Len(responses) = 1
          /\ responses[1].status = 200
          /\ responses[1].body.ok = TRUE
          /\ LET at == InstancePositions(objects)
                 recs == responses[1].body.data.adapters
             IN /\ Len(recs) = Len(at)
                /\ \A j \in 1..Len(at) :
                     LET alive == LiveRead(at[j], "alive")
                         connected == LiveRead(at[j], "connected")
                         uptime == LiveRead(at[j], "uptime")
                     IN /\ recs[j].id = InstanceId(objects[at[j]].id)
                        /\ recs[j].alive = (alive # Undefined /\ alive[1].val = "true")
                        /\ recs[j].connected =
                               (connected # Undefined /\ connected[1].val = "true")
                        /\ recs[j].uptime =
                               IF uptime # Undefined /\ uptime[1].val \in {"0", "7"}
                               THEN uptime[1].val ELSE "0"

\* A call answered with two records, where of the reads of a running instance
\* the alive read threw and the other two returned
C13_Witness ==
    /\ pc = "done"
    /\ IsMethod(req, "list_adapters")
    /\ Len(responses) = 1
    /\ responses[1].status = 200
    /\ Len(responses[1].body.data.adapters) = 2
    /\ auxThrew = {<<2, "alive">>}
    /\ store[Append(InstA, "alive")] = Live("true")
    /\ responses[1].body.data.adapters[1].alive = FALSE
    /\ responses[1].body.data.adapters[1].connected = TRUE
    /\ responses[1].body.data.adapters[1].uptime = "7"

\* C15: in get_states, a read that returns nothing for an id, without
\* throwing, pushes the record {id, value: null, ack: false, ts: current time}
\* with no error field, and the call is answered with a success envelope.
C15_AbsentStateRecord ==
    [][(/\ pc = "get_states"
        /\ threw' = Append(threw, FALSE)
        /\ store[req.params.ids.a[idx]] = Undefined)
       => /\ states' = Append(states, [id |-> req.params.ids.a[idx], value |-> JsNull,
                                        ack |-> FALSE, ts |-> now])
          /\ pc' = "done" =>
                responses' = <<Response(200, [ok |-> TRUE, data |-> [states |-> states']])>>
      ]_vars

\* An answered call for two ids, the second without a live value and read at
\* a later time than the request arrived
C15_Witness ==
    /\ pc = "done"
    /\ IsGetStates(req)
    /\ threw = <<FALSE, FALSE>>
    /\ store[req.params.ids.a[1]] # Undefined
    /\ store[req.params.ids.a[2]] = Undefined
    /\ responses[1].body.data.states[2] =
           [id |-> req.params.ids.a[2], value |-> JsNull, ack |-> FALSE, ts |-> 1]

-----------------------------------------------------------------------------
(* Properties of system_info *)

\* C14: if the host object read or the instance enumeration of system_info
\* throws, the call is answered with a failure envelope, ok = false and no
\* data field, and nothing is sent before; if both return, it is answered with
\* a success envelope whose instances field is the number of entries the
\* store returned.
C14_AggregateFailure ==
    /\ pc \in {"system_info_host", "system_info_instances"} => responses = <<>>
    /\ pc = "system_info_done" =>
         /\ Len(responses) = 1
         /\ IF \E i \in 1..Len(threw) : threw[i]
            THEN /\ responses[1].status = 500
                 /\ responses[1].body.ok = FALSE
                 /\ "data" \notin DOMAIN responses[1].body
            ELSE /\ responses[1].status = 200
                 /\ responses[1].body.ok = TRUE
                 /\ responses[1].body.data.instances = Len(instances)

\* The host object read returned and the instance enumeration threw, over a
\* store with instances
C14_Witness ==
    /\ pc = "system_info_done"
    /\ threw = <<FALSE, TRUE>>
    /\ Len(instances) = 2
    /\ gathered.js_controller = "7.0.6"
    /\ Len(responses) = 1

-----------------------------------------------------------------------------
(* Properties of listDevices: enrichment, classification, unknown rooms *)

\* C12: a live-value read of an attached state that throws during
\* listDevices does not fail the call: it is recorded on the entry of that
\* state and the call goes on to return a result.
C12_StateReadIsolation == lpc # "rejected:state"

\* No room enum of the store has the name, in any of its variants
NoRoomNamed(room) ==
    \A i \in 1..Len(dbObjects) :
        IsRoomEnum(dbObjects[i]) => ~NameMatches(dbObjects[i].common.name, room)

\* C16: listDevices with a non-empty room name that no room enum has sets no
\* device, reads nothing for any entry, and returns {total: 0, devices: []},
\* for every store, limit and offset.
C16_UnknownRoom ==
    (Truthy(ldParams.room) /\ NoRoomNamed(ldParams.room[1])) =>
        /\ roomMembers = <<>>
        /\ devicesMap = <<>>
        /\ lpc \notin {"rejected:deviceRoom", "rejected:state"}
        /\ lpc = "returned" => result = [total |-> 0, devices |-> <<>>]

\* The call for the room "Nonexistent" returned, over a store whose devices
\* would all be listed without a room filter
C16_Witness ==
    /\ lpc = "returned"
    /\ ldParams.room = Some(<<"Nonexistent">>)
    /\ Len(RefDevices(Undefined)) = 2
    /\ result.total = 0

\* The ids of a list of entries
IdsOf(list) == {list[i].id : i \in 1..Len(list)}

\* C17: the states attached to a device are exactly the state-kind entries
\* whose ids the controls of the classifier contribute for its grouping entry.
C17_AttachedFromControls ==
    \A i \in 1..Len(devicesMap) :
        LET id == devicesMap[i].id
            detected == DetectedStates(Detect(id))
        IN IdsOf(devicesMap[i].value.states) =
               {detected[j] : j \in 1..Len(detected)}
                   \cap {ldObjects[j].id :
                            j \in {k \in 1..Len(ldObjects) : ldObjects[k].value.type = "state"}}

\* C19: the type of a device is the type of the first control the classifier
\* returned for its grouping entry, whatever controls follow, and is "unknown"
\* exactly when the classifier returned no control.
C19_TypeOfFirstControl ==
    \A i \in 1..Len(devicesMap) :
        LET controls == Detect(devicesMap[i].id)
            type == devicesMap[i].value.type
        IN /\ controls # <<>> => type = controls[1].type
           /\ type = "unknown" <=> controls = <<>>

\* A device set for an entry classified with two controls of different types
C19_Witness ==
    \E i \in 1..Len(devicesMap) :
        /\ Len(Detect(devicesMap[i].id)) = 2
        /\ Detect(devicesMap[i].id)[1].type # Detect(devicesMap[i].id)[2].type
        /\ devicesMap[i].value.type = "thermostat"

-----------------------------------------------------------------------------
(* Properties of listDevices over a changing store *)

\* Two of the rows share an identifier
Collide(rows) == \E i, j \in 1..Len(rows) : i < j /\ rows[i].id = rows[j].id

\* C18: when the rows allObjects merges hold two rows with one identifier, the
\* collision is reported: allObjects does not go on with the later row in
\* place of the earlier one.
C18_NoSilentOverwrite ==
    [][(/\ lpc = ViewPc(Len(ViewOrder))
        /\ Collide(ldObjects \o ViewRows(dbObjects, "enum")))
       => lpc' \notin {"roomEnums", "loop"}]_vars

\* The enum entries of a snapshot, as rows
EnumRows(obj) == SelectSeq(obj, LAMBDA e : e.value.type = "enum")

\* The devices listDevices would build from the snapshot alone
SnapshotDevices(obj, room) ==
    LET rows == EnumRows(obj)
        members == IF Truthy(room) THEN FindRoomMembers(rows, room[1]) ELSE <<>>
        kept == SelectSeq(obj, LAMBDA e :
                    /\ IsGrouping(e.value)
                    /\ Truthy(room) => DeviceInRoom(members, e.id)
                    /\ StatesUnder(obj, e.id) # {})
    IN [i \in 1..Len(kept) |->
           Device(obj, rows, Detect(kept[i].id), kept[i].id, kept[i].value, "en")]

\* C20: whatever third parties write to the room enums while a listDevices
\* call is suspended, the devices that pass the room filter and the room of
\* each are those computed from the snapshot loaded at the start of the call.
C20_SingleSnapshot ==
    lpc = "returned" =>
        result = Paginate(SnapshotDevices(ldObjects, ldParams.room), ldParams)

-----------------------------------------------------------------------------
(* Properties of the state records *)

\* The record carries lc exactly when the read gave a live value whose lc
\* differs from its ts, and then it is that lc
LcAsStored(rec, live) ==
    /\ "lc" \in DOMAIN rec <=> (live # Undefined /\ live[1].lc # live[1].ts)
    /\ "lc" \in DOMAIN rec => rec.lc = live[1].lc

\* C21: in every state record of get_states and of listDevices, lc is present
\* if and only if the read gave a live value whose lc differs from its ts, and
\* is then the stored lc; the record of a read that threw, for which no live
\* value was obtained, carries none.
C21_LcOnlyWhenDifferent ==
    /\ pc \in {"get_states", "done"} =>
          \A j \in 1..Len(states) :
              LcAsStored(states[j], IF threw[j] THEN Undefined ELSE store[states[j].id])
    /\ \A i \in 1..Len(devicesMap) :
          \A j \in 1..Len(devicesMap[i].value.states) :
              LET rec == devicesMap[i].value.states[j]
              IN LcAsStored(rec, store[rec.id])
    /\ lpc = "returned" =>
          \A i \in 1..Len(result.devices) :
              \A j \in 1..Len(result.devices[i].states) :
                  LET rec == result.devices[i].states[j]
                  IN LcAsStored(rec, store[rec.id])

\* A get_states call answered and a listDevices call returned, each with a
\* record that carries lc and a record of a live value that carries none
C21_Witness ==
    /\ pc = "done"
    /\ lpc = "returned"
    /\ threw = <<FALSE, FALSE>>
    /\ "lc" \in DOMAIN states[1]
    /\ "lc" \notin DOMAIN states[2]
    /\ store[states[2].id] # Undefined
    /\ Len(result.devices) = 2
    /\ "lc" \in DOMAIN result.devices[1].states[1]
    /\ "lc" \notin DOMAIN result.devices[2].states[1]
    /\ result.devices[2].states[1].ts = Some(1)

-----------------------------------------------------------------------------
(* Properties of the room lookup *)

\* The object is an enumeration under enum.rooms. whose name, or one of the
\* language variants of whose name, is the room ignoring case
RoomNamed(obj, room) ==
    /\ obj.type = "enum"
    /\ Len(obj._id) > 2 /\ obj._id[1] = "enum" /\ obj._id[2] = "rooms"
    /\ obj.common.name # Undefined
    /\ LET name == obj.common.name[1]
       IN \/ name.t = "string" /\ name.s # EmptyString
                /\ ToLowerCase(name.s) = ToLowerCase(room)
          \/ name.t = "map" /\ name.en # Undefined
                /\ ToLowerCase(name.en[1]) = ToLowerCase(room)
          \/ name.t = "map" /\ name.de # Undefined
                /\ ToLowerCase(name.de[1]) = ToLowerCase(room)

\* C22: once the room lookup of listDevices has run, the members used by the
\* filter are those of the first object of the store, in its order, that is an
\* enumeration under enum.rooms. named as the requested room ignoring case in
\* its name or in any language variant of it; matching enumerations after it
\* are ignored, and with no such enumeration the members are empty.
C22_FirstMatchingRoom ==
    (lpc \in {"loop", "returned"} /\ Truthy(ldParams.room)) =>
        LET room == ldParams.room[1]
            M == {i \in 1..Len(dbObjects) : RoomNamed(dbObjects[i], room)}
        IN /\ M = {} => roomMembers = <<>>
           /\ \A i \in M :
                 (\A j \in M : i <= j) =>
                     roomMembers = dbObjects[i].common.members[1]

\* Two rooms match the request, one by its name in another case and one by a
\* language variant, and the call has returned with the members of the first
C22_Witness ==
    /\ lpc = "returned"
    /\ ldParams.room = Some(<<"living">>)
    /\ RoomNamed(dbObjects[2], <<"living">>)
    /\ RoomNamed(dbObjects[3], <<"living">>)
    /\ dbObjects[2].common.name = Some(NameMap(Undefined, Some(<<"LIVING">>)))
    /\ dbObjects[3].common.name = Some(NameString(<<"Living">>))
    /\ dbObjects[2].common.members = Some(<<D2>>)
    /\ dbObjects[3].common.members = Some(<<D1>>)
    /\ roomMembers = <<D2>>
    /\ result.total = 2

-----------------------------------------------------------------------------
(* Properties of main.ts *)

\* C23: onUnload eventually invokes its callback, and invokes it exactly once,
\* whether no server was created, the server is listening, the server failed
\* to start, or server.close throws.
C23_UnloadCompletes ==
    /\ [](callbacks <= 1)
    /\ [](unloaded => <>(callbacks = 1))

\* C24: with authentication enabled, a request is passed to a route handler
\* only if its Authorization header carries exactly the configured username
\* and the configured password.
C24_OnlyExactCredentials ==
    (config.auth /\ httpPc \in {"route", "handled"}) =>
        /\ authorization # Undefined
        /\ Len(authorization[1]) >= 2
        /\ FromBase64(authorization[1][2]) = config.username \o <<":">> \o config.password

=============================================================================
